---------------------------- MODULE Spec2Model ----------------------------
(***************************************************************************)
(* Model of JsiWorklet (the worklet descriptor), JsThisWrapper and         *)
(* WorkletInvoker of react-native-worklets-core.                           *)
(*                                                                         *)
(* The repository holds two copies of the classes:                         *)
(*   "cpp" : src/cpp/WKTJsiWorklet.h                                       *)
(*   "ts"  : the C++ text carried by src/src/NativeWorklets.ts (l. 79-534) *)
(* The variable impl says which copy a behaviour runs.                     *)
(***************************************************************************)
EXTENDS Naturals, Sequences, FiniteSets, TLC

(***************************************************************************)
(* Bounds of the model.                                                    *)
(***************************************************************************)
MaxCodeLen == 5
MaxCalls == 3
MaxDepth == 2
MaxPending == 2

(***************************************************************************)
(* jsi::Value, reduced to the kinds the code distinguishes.                *)
(***************************************************************************)
Undefined == [t |-> "undefined"]
Null == [t |-> "null"]
Number == [t |-> "number"]
Str(s) == [t |-> "string", s |-> s]
PlainObject == [t |-> "object"]

isUndefined(v) == v.t = "undefined"
isNull(v) == v.t = "null"
isString(v) == v.t = "string"
isObject(v) == v.t \in {"object", "function"}
isFunction(v) == v.t = "function"

\* Characters of a source text: one whitespace and one non-whitespace.
Alphabet == {" ", "a"}
isspace(c) == c = " "

\* Every text over Alphabet of length at most n.
Strings(n) == UNION {[1..k -> Alphabet] : k \in 0..n}

\* A shared_ptr that holds nothing.
NullPtr == [t |-> "nullptr"]

(***************************************************************************)
(* Captured function values handed to createWorklet.                       *)
(***************************************************************************)
\* The __initData property: absent, not an object, or an object with
\* the properties location and code.
InitDataObject(location, code) ==
  [t |-> "object", location |-> location, code |-> code]

ClosureValue(c) == [t |-> "object", content |-> c]

Function(initData, asString, location, closure, closureLegacy, name, hash) ==
  [t |-> "function", initData |-> initData, asString |-> asString,
   location |-> location, closure |-> closure,
   closureLegacy |-> closureLegacy, name |-> name, workletHash |-> hash]

(***************************************************************************)
(* JsiWorklet fields after createWorklet.                                  *)
(***************************************************************************)
\* The fields as createWorklet clears them (cpp 311-315); _name keeps its
\* member initialiser "fn".
ClearedWorklet ==
  [isWorklet |-> FALSE, isRea30Compat |-> FALSE, code |-> <<>>,
   location |-> "", closureWrapper |-> NullPtr, name |-> "fn"]

\* Outcome of a constructor: the object, or the JSError it threw.
Constructed(w) == [threw |-> "none", worklet |-> w]
Thrown(msg) == [threw |-> msg, worklet |-> ClearedWorklet]

ErrNotFunction == "Worklets must be initialized from a valid function."
ErrEmptyCode == "Failed to create Worklet, the provided code is empty."

\* JsiWrapper::wrap: an owning snapshot of the value.
wrap(v) == [t |-> "wrapper", snapshot |-> v]

\* isCodeEmpty without the size() <= 3 test.
isCodeEmptyNoSize(code) ==
  \A i \in 1..Len(code) : isspace(code[i])

\* cpp 363-372: whitespace-only, or not whitespace-only and size() <= 3.
isCodeEmpty(code) ==
  LET allSpace == \A i \in 1..Len(code) : isspace(code[i])
  IN IF ~allSpace /\ Len(code) <= 3 THEN TRUE ELSE allSpace

\* ts 431-439: size() <= 3 || isWhitespaceOnly.
isWhitespaceOnly(s) == \A i \in 1..Len(s) : isspace(s[i])
isEmptyTs(code) == Len(code) <= 3 \/ isWhitespaceOnly(code)

\* extractClosure that looks under __closure first.
extractClosureLegacyFirst(func) ==
  LET first == func.closureLegacy
      closure == IF isUndefined(first) \/ isNull(first)
                 THEN func.closure ELSE first
  IN IF ~isUndefined(closure) /\ ~isNull(closure)
     THEN wrap(closure) ELSE NullPtr

\* cpp 386-397: the optional closure, _closure first, then __closure.
extractClosure(func) ==
  LET first == func.closure
      closure == IF isUndefined(first) \/ isNull(first)
                 THEN func.closureLegacy ELSE first
  IN IF ~isUndefined(closure) /\ ~isNull(closure)
     THEN wrap(closure) ELSE NullPtr

\* cpp 399-405: the optional name.
extractName(func) == IF isString(func.name) THEN func.name.s ELSE "fn"

\* cpp 362-407: validation, closure and name, once an encoding was read.
finishWorklet(func, w) ==
  IF isCodeEmpty(w.code)
  THEN Thrown(ErrEmptyCode)
  ELSE Constructed([w EXCEPT !.closureWrapper = extractClosure(func),
                             !.name = extractName(func),
                             !.isWorklet = TRUE])

\* readLegacyProperties that asks for the source property alone.
readLegacyPropertiesSourceOnly(func) ==
  LET asStringProp == func.asString
      locationProp == func.location
  IN IF ~isString(asStringProp)
     THEN Constructed(ClearedWorklet)
     ELSE finishWorklet(func, [ClearedWorklet EXCEPT
                                 !.code = asStringProp.s,
                                 !.location = IF isString(locationProp)
                                              THEN locationProp.s ELSE "",
                                 !.isRea30Compat = FALSE])

\* cpp 340-354: the legacy properties asString and __location.
readLegacyProperties(func) ==
  LET asStringProp == func.asString
      locationProp == func.location
  IN IF ~isString(asStringProp) \/ ~isString(locationProp)
     THEN Constructed(ClearedWorklet)
     ELSE finishWorklet(func, [ClearedWorklet EXCEPT
                                 !.code = asStringProp.s,
                                 !.location = locationProp.s,
                                 !.isRea30Compat = FALSE])

\* readInitDataCode that turns to the legacy properties when the
\* init-data object has no code.
readInitDataCodeOrLegacy(func, w, codeProp) ==
  IF ~isString(codeProp)
  THEN readLegacyProperties(func)
  ELSE finishWorklet(func, [w EXCEPT !.code = codeProp.s,
                                     !.isRea30Compat = TRUE])

\* readInitDataCode with a code that is no string read as the empty text.
readInitDataCodeUnchecked(func, w, codeProp) ==
  finishWorklet(func, [w EXCEPT
                         !.code = IF isString(codeProp) THEN codeProp.s
                                  ELSE <<>>,
                         !.isRea30Compat = TRUE])

\* cpp 331-338: the code property of the init-data object.
readInitDataCode(func, w, codeProp) ==
  IF ~isString(codeProp)
  THEN Constructed(w)
  ELSE finishWorklet(func, [w EXCEPT !.code = codeProp.s,
                                     !.isRea30Compat = TRUE])

\* cpp 308-408: createWorklet(runtime, shared_ptr<jsi::Function>).
createWorkletFunc(func) ==
  LET initDataProp == func.initData IN
  IF isObject(initDataProp)
  THEN LET locationProp == initDataProp.location IN
       IF ~isString(locationProp)
       THEN Constructed(ClearedWorklet)
       ELSE readInitDataCode(func,
                             [ClearedWorklet EXCEPT !.location = locationProp.s],
                             initDataProp.code)
  ELSE readLegacyProperties(func)

\* createWorklet that leaves the descriptor cleared for a value that is
\* no function.
createWorkletNoThrow(arg) ==
  IF ~isObject(arg) \/ ~isFunction(arg)
  THEN Constructed(ClearedWorklet)
  ELSE createWorkletFunc(arg)

\* cpp 295-303: createWorklet(runtime, const jsi::Value &).
createWorklet(arg) ==
  IF ~isObject(arg) \/ ~isFunction(arg)
  THEN Thrown(ErrNotFunction)
  ELSE createWorkletFunc(arg)

\* What a static predicate gives back: a result, or a JSError on the way.
Returned(b) == [raised |-> FALSE, result |-> b]

Raised == [raised |-> TRUE, result |-> FALSE]

\* isDecoratedAsWorkletFunc that looks for the closure under _closure only.
isDecoratedAsWorkletFuncModernClosure(func) ==
  LET hashProp == func.workletHash
      closure == func.closure
      initData == func.initData
      asString == func.asString
  IN IF isString(hashProp) THEN Returned(TRUE)
     ELSE IF isUndefined(closure) \/ isNull(closure) THEN Returned(FALSE)
     ELSE IF ~isObject(initData) /\ ~isString(asString) THEN Returned(FALSE)
     ELSE Returned(TRUE)

\* cpp 151-181: isDecoratedAsWorklet(runtime, shared_ptr<jsi::Function>).
isDecoratedAsWorkletFunc(func) ==
  LET hashProp == func.workletHash
      first == func.closure
      closure == IF isUndefined(first) \/ isNull(first)
                 THEN func.closureLegacy ELSE first
      initData == func.initData
      asString == func.asString
  IN IF isString(hashProp) THEN Returned(TRUE)
     ELSE IF isUndefined(closure) \/ isNull(closure) THEN Returned(FALSE)
     ELSE IF ~isObject(initData) /\ ~isString(asString) THEN Returned(FALSE)
     ELSE Returned(TRUE)

\* jsi::Value::asObject and jsi::Object::asFunction raise a JSError on a
\* value of another kind (cpp 136, 141-143).
asFunction(value, then) ==
  IF ~isObject(value) \/ ~isFunction(value) THEN Raised ELSE then

\* cpp 130-144: isDecoratedAsWorklet(runtime, const jsi::Value &).
isDecoratedAsWorklet(value) ==
  IF ~isObject(value) THEN Returned(FALSE)
  ELSE IF ~isFunction(value) THEN Returned(FALSE)
  ELSE asFunction(value, isDecoratedAsWorkletFunc(value))

\* ts 205-256: the same text as cpp 130-181.
isDecoratedAsWorkletTs(value) == isDecoratedAsWorklet(value)

\* ts 430-472: validation, closure and name.
finishWorkletTs(func, w) ==
  IF isEmptyTs(w.code)
  THEN Thrown(ErrEmptyCode)
  ELSE LET first == func.closure
           closure == IF isUndefined(first) \/ isNull(first)
                      THEN func.closureLegacy ELSE first
       IN Constructed([w EXCEPT
            !.closureWrapper = IF ~isUndefined(closure) /\ ~isNull(closure)
                               THEN wrap(closure) ELSE NullPtr,
            !.name = IF isString(func.name) THEN func.name.s ELSE "fn",
            !.isWorklet = TRUE])

\* ts 377-473: createWorklet(runtime, shared_ptr<jsi::Function>).
createWorkletFuncTs(func) ==
  LET initDataProp == func.initData IN
  IF isObject(initDataProp)
  THEN LET locationProp == initDataProp.location
           w1 == [ClearedWorklet EXCEPT
                    !.location = IF isString(locationProp)
                                 THEN locationProp.s ELSE "(unknown)"]
           codeProp == initDataProp.code
       IN IF ~isString(codeProp)
          THEN Constructed(w1)
          ELSE finishWorkletTs(func, [w1 EXCEPT !.code = codeProp.s,
                                                !.isRea30Compat = TRUE])
  ELSE LET asStringProp == func.asString
           locationProp == func.location
       IN IF ~isString(asStringProp) \/ ~isString(locationProp)
          THEN Constructed(ClearedWorklet)
          ELSE finishWorkletTs(func, [ClearedWorklet EXCEPT
                                        !.code = asStringProp.s,
                                        !.location = locationProp.s,
                                        !.isRea30Compat = FALSE])

\* ts 364-372: createWorklet(runtime, const jsi::Value &).
createWorkletTs(arg) ==
  IF ~isObject(arg) \/ ~isFunction(arg)
  THEN Thrown(ErrNotFunction)
  ELSE createWorkletFuncTs(arg)


(***************************************************************************)
(* Environments, contexts and threads.  A runtime and the context that     *)
(* owns it carry the same name, and so does the context's thread.          *)
(***************************************************************************)
DefaultRuntime == "js"
Runtimes == {"js", "wk1"}
Threads == Runtimes \cup {"other"}

\* JsiWorkletContext::getCurrent: the context that owns the runtime, none
\* for the default (host) runtime.
Context(rt) == [t |-> "context", rt |-> rt]

getCurrent(rt) == IF rt = DefaultRuntime THEN NullPtr ELSE Context(rt)

\* JsiWorkletContext::getDefaultInstance.
getDefaultInstance == Context(DefaultRuntime)

\* invokeOnJsThread / invokeOnWorkletThread: append to the context's FIFO.
invokeOnThread(q, ctx, task) == [q EXCEPT ![ctx.rt] = Append(@, task)]

\* JsiWrapper::unwrap: the snapshot as a native value of runtime rt.
unwrap(rt, wrapper) ==
  [t |-> "object", content |-> wrapper.snapshot.content, env |-> rt]

(***************************************************************************)
(* Materialization.                                                        *)
(***************************************************************************)
\* What runtime.evaluateJavaScript does with the wrapped text.
EvalOutcomes == {"function", "object", "nonobject", "JSError", "exception"}

EvaluatedFunction == [t |-> "function"]

\* evaluteJavascriptInWorkletRuntime that evaluates whatever the text is.
evaluteJavascriptInWorkletRuntimeNoSkip(code, outcome) ==
  [value |-> CASE outcome = "function" -> EvaluatedFunction
               [] outcome = "object" -> PlainObject
               [] outcome = "nonobject" -> Number
               [] outcome = "JSError" -> Undefined
               [] outcome = "exception" -> Undefined,
   evaluated |-> TRUE]

\* cpp 410-449.
evaluteJavascriptInWorkletRuntime(code, outcome) ==
  LET isEmpty == \A i \in 1..Len(code) : isspace(code[i]) IN
  IF isEmpty \/ Len(code) <= 3
  THEN [value |-> Undefined, evaluated |-> FALSE]
  ELSE [value |-> CASE outcome = "function" -> EvaluatedFunction
                    [] outcome = "object" -> PlainObject
                    [] outcome = "nonobject" -> Number
                    [] outcome = "JSError" -> Undefined
                    [] outcome = "exception" -> Undefined,
        evaluated |-> TRUE]

Handle(id, rt, kind) == [t |-> "handle", id |-> id, rt |-> rt, kind |-> kind]

\* createWorkletJsFunction without the isFunction test.
createWorkletJsFunctionAnyObject(w, rt, outcome, id) ==
  LET ev == evaluteJavascriptInWorkletRuntime(w.code, outcome)
      evaluatedFunction == ev.value
  IN [evaluated |-> ev.evaluated,
      handle |-> IF ~isObject(evaluatedFunction)
                 THEN Handle(id, rt, "noop")
                 ELSE Handle(id, rt, "real")]

\* cpp 187-232: the callable for the worklet, or the no-op callable.
createWorkletJsFunction(w, rt, outcome, id) ==
  LET ev == evaluteJavascriptInWorkletRuntime(w.code, outcome)
      evaluatedFunction == ev.value
  IN [evaluated |-> ev.evaluated,
      handle |-> IF ~isObject(evaluatedFunction)
                 THEN Handle(id, rt, "noop")
                 ELSE IF ~isFunction(evaluatedFunction)
                      THEN Handle(id, rt, "noop")
                      ELSE Handle(id, rt, "real")]

\* ts 475-500.
evaluteJavascriptInWorkletRuntimeTs(code, outcome) ==
  LET isEmpty == \A i \in 1..Len(code) : isspace(code[i]) IN
  IF isEmpty \/ Len(code) <= 3
  THEN [value |-> Undefined, evaluated |-> FALSE]
  ELSE [value |-> CASE outcome = "function" -> EvaluatedFunction
                    [] outcome = "object" -> PlainObject
                    [] outcome = "nonobject" -> Number
                    [] outcome = "JSError" -> Undefined
                    [] outcome = "exception" -> Undefined,
        evaluated |-> TRUE]

\* ts 262-296.
createWorkletJsFunctionTs(w, rt, outcome, id) ==
  LET ev == evaluteJavascriptInWorkletRuntimeTs(w.code, outcome)
      evaluatedFunction == ev.value
  IN [evaluated |-> ev.evaluated,
      handle |-> IF ~isObject(evaluatedFunction)
                 THEN Handle(id, rt, "noop")
                 ELSE IF ~isFunction(evaluatedFunction)
                      THEN Handle(id, rt, "noop")
                      ELSE Handle(id, rt, "real")]


(***************************************************************************)
(* Objects of a runtime.  An object is a reference (its id); heap maps     *)
(* the ids of the live objects to their two closure properties.            *)
(***************************************************************************)
ObjectRef(id) == [t |-> "object", id |-> id]

\* The object the caller may pass as thisValue.
CallerThis == ObjectRef(0)

ThisValues == {Undefined, CallerThis}

\* The properties _closure (closure) and __closure (closureLegacy).
EmptyProps == [closure |-> Undefined, closureLegacy |-> Undefined]

\* A call made without an explicit receiver.
NoReceiver == [t |-> "none"]

\* setClosureProperties that writes _closure alone.
setClosureModernOnly(props, unwrappedClosure) ==
  [props EXCEPT !.closure = unwrappedClosure]

\* cpp 261-266 and 274-279: the closure is set under both property names.

setClosureProperties(props, unwrappedClosure) ==
  [props EXCEPT !.closure = unwrappedClosure,
                !.closureLegacy = unwrappedClosure]

\* JsThisWrapper that takes undefined for the value to put back.
JsThisWrapperCtorNoSave(global, rt, thisValue) ==
  [oldThis |-> Undefined, global |-> [global EXCEPT ![rt] = thisValue]]

\* cpp 65-69: JsThisWrapper saves global.jsThis and installs thisValue.
JsThisWrapperCtor(global, rt, thisValue) ==
  [oldThis |-> global[rt], global |-> [global EXCEPT ![rt] = thisValue]]

\* ~JsThisWrapper that leaves global.jsThis as it is.
JsThisWrapperDtorKeep(global, rt, oldThis) == global

\* cpp 70-72: ~JsThisWrapper puts the saved value back.

JsThisWrapperDtor(global, rt, oldThis) == [global EXCEPT ![rt] = oldThis]

\* legacyReceiver that never passes a receiver.
legacyReceiverNone(thisValue) == NoReceiver

\* cpp 282-287: callWithThis(thisValue) for an object, else call.
legacyReceiver(thisValue) ==
  IF isObject(thisValue) THEN thisValue ELSE NoReceiver

\* cpp 237-289: JsiWorklet::call up to the invocation of workletFunction.
\* unwrapThrows: JsiWrapper::unwrap raises.  id: the id of the object this
\* call creates.  The frame is the activation of workletFunction.
workletCall(w, workletFunction, rt, thisValue, unwrapThrows, id, global, objs) ==
  IF w.closureWrapper # NullPtr /\ unwrapThrows
  THEN [raised |-> TRUE, global |-> global, objs |-> objs, frame |-> NullPtr]
  ELSE
  LET unwrappedClosure == IF w.closureWrapper # NullPtr
                          THEN unwrap(rt, w.closureWrapper)
                          ELSE Undefined
      hasClosure == ~isUndefined(unwrappedClosure) /\ ~isNull(unwrappedClosure)
  IN IF w.isRea30Compat
     THEN LET fresh == ~isObject(thisValue)
              resolvedThisValue == IF fresh THEN ObjectRef(id) ELSE thisValue
              objs1 == IF fresh THEN (id :> EmptyProps) @@ objs ELSE objs
              objs2 == IF hasClosure
                       THEN [objs1 EXCEPT ![resolvedThisValue.id] =
                               setClosureProperties(@, unwrappedClosure)]
                       ELSE objs1
          IN [raised |-> FALSE, global |-> global, objs |-> objs2,
              frame |-> [rt |-> rt, handle |-> workletFunction,
                         legacy |-> FALSE, receiver |-> resolvedThisValue,
                         thisValue |-> thisValue,
                         created |-> IF fresh THEN id ELSE 0,
                         oldThis |-> Undefined,
                         unwrappedClosure |-> unwrappedClosure,
                         preThis |-> global[rt]]]
     ELSE LET jsThisObj == ObjectRef(id)
              props == IF hasClosure
                       THEN setClosureProperties(EmptyProps, unwrappedClosure)
                       ELSE EmptyProps
              thisWrapper == JsThisWrapperCtor(global, rt, jsThisObj)
          IN [raised |-> FALSE, global |-> thisWrapper.global,
              objs |-> (id :> props) @@ objs,
              frame |-> [rt |-> rt, handle |-> workletFunction,
                         legacy |-> TRUE,
                         receiver |-> legacyReceiver(thisValue),
                         thisValue |-> thisValue,
                         created |-> id,
                         oldThis |-> thisWrapper.oldThis,
                         unwrappedClosure |-> unwrappedClosure,
                         preThis |-> global[rt]]]

\* ts 301-353: the same text as cpp 237-289.
workletCallTs(w, workletFunction, rt, thisValue, unwrapThrows, id, global, objs) ==
  workletCall(w, workletFunction, rt, thisValue, unwrapThrows, id, global, objs)

\* cpp 501-513: what WorkletInvoker::call hands back to its caller.
callResult(raises, value) ==
  [propagated |-> FALSE, value |-> IF raises THEN Undefined ELSE value]

\* ts 525-526: the value of _worklet->call is returned as it is.
callResultTs(raises, value) ==
  [propagated |-> raises, value |-> IF raises THEN NullPtr ELSE value]

\* disposalContext that always takes the default context.
disposalContextDefault(owning) == getDefaultInstance

\* cpp 473-480: the context the disposal is sent to.

disposalContext(owning) ==
  IF owning = NullPtr THEN getDefaultInstance ELSE owning


(***************************************************************************)
(* The state.                                                              *)
(***************************************************************************)
VARIABLES
  impl,             \* which copy of the classes runs: "cpp" or "ts"
  arg,              \* the captured function value given to the constructor
  phase,            \* "new", "alive", "failed" (constructor threw), "destroyed"
  ctorError,        \* the message of the JSError the constructor threw
  worklet,          \* the fields of the JsiWorklet
  workletFunction,  \* cpp WorkletInvoker::_workletFunction
  owningContext,    \* cpp WorkletInvoker::_owningContext
  runtimeCache,     \* ts WorkletInvoker::_workletFunction, one slot per runtime
  jsThis,           \* global.jsThis of every runtime
  heap,             \* the closure properties of the live objects
  stack,            \* activations of workletFunction, innermost last
  queue,            \* the task FIFO of every context
  released,         \* where the last reference of a handle was dropped
  callLog,          \* one entry per WorkletInvoker::call begun
  lastCall          \* the WorkletInvoker::call that completed last

vars == <<impl, arg, phase, ctorError, worklet, workletFunction,
          owningContext, runtimeCache, jsThis, heap, stack, queue,
          released, callLog, lastCall>>

NoCall == [t |-> "none"]

\* The characters of a worklet with a body.
SampleCode == <<"a", "a", "a", "a">>

\* The captured values the invoker is exercised with.
SampleFunctions ==
  {Function(initData, asString, Str("file.js"), closure, closureLegacy,
            Str("add"), Undefined) :
     initData \in {Undefined,
                   InitDataObject(Str("file.js"), Str(SampleCode)),
                   InitDataObject(Undefined, Str(SampleCode)),
                   InitDataObject(Str("file.js"), Undefined)},
     asString \in {Undefined, Str(SampleCode)},
     closure \in {Undefined, ClosureValue("c1")},
     closureLegacy \in {Undefined, ClosureValue("c2")}}

\* Every captured value with texts of at most MaxCodeLen characters.
CodeValues == {Undefined, Number} \cup {Str(c) : c \in Strings(MaxCodeLen)}
LocationValues == {Undefined, Str("file.js")}

\* The legacy __location property names another place than the
\* init-data object does.
LegacyLocationValues == {Undefined, Str("legacy.js")}
ClosureValues(c) == {Undefined, Null, ClosureValue(c)}

\* With an init-data object the legacy source property is absent or a
\* worklet text; without one it ranges over every text.
AllFunctions ==
  {Function(initData, asString, location, closure, closureLegacy,
            Str("add"), Undefined) :
     initData \in {InitDataObject(l, c) : l \in LocationValues,
                                          c \in CodeValues},
     asString \in {Undefined, Str(SampleCode)},
     location \in LegacyLocationValues,
     closure \in ClosureValues("c1"),
     closureLegacy \in ClosureValues("c2")}
  \cup
  {Function(initData, asString, location, closure, closureLegacy,
            Str("add"), Undefined) :
     initData \in {Undefined, Number},
     asString \in CodeValues,
     location \in LegacyLocationValues,
     closure \in ClosureValues("c1"),
     closureLegacy \in ClosureValues("c2")}

AllArgs == {Undefined, Number, PlainObject} \cup AllFunctions

\* The values a worklet hash property is given.
HashValues == {Undefined, Number, Str("h")}

\* Values handed to isDecoratedAsWorklet: every kind of every property
\* the predicate reads.
DecoratedArgs ==
  {Undefined, Number, PlainObject}
  \cup
  {Function(initData, asString, Str("file.js"), closure, closureLegacy,
            Str("add"), hash) :
     initData \in {Undefined, Number,
                   InitDataObject(Str("file.js"), Str(SampleCode))},
     asString \in {Undefined, Number, Str(SampleCode)},
     closure \in ClosureValues("c1"),
     closureLegacy \in ClosureValues("c2"),
     hash \in HashValues}

InitRest ==
  /\ impl \in {"cpp", "ts"}
  /\ phase = "new"
  /\ ctorError = "none"
  /\ worklet = ClearedWorklet
  /\ workletFunction = NullPtr
  /\ owningContext = NullPtr
  /\ runtimeCache = [rt \in Runtimes |-> NullPtr]
  /\ jsThis = [rt \in Runtimes |-> Undefined]
  /\ heap = (0 :> EmptyProps)
  /\ stack = <<>>
  /\ queue = [ctx \in Runtimes |-> <<>>]
  /\ released = {}
  /\ callLog = <<>>
  /\ lastCall = NoCall

Init == arg \in SampleFunctions /\ InitRest

InitDecorated == arg \in DecoratedArgs /\ InitRest

InitCreate == arg \in AllArgs /\ InitRest

(***************************************************************************)
(* Construction: WorkletInvoker(runtime, value) builds the JsiWorklet.     *)
(***************************************************************************)
\* cpp 88-90, 465-466.
Construct ==
  /\ phase = "new"
  /\ impl = "cpp"
  /\ LET made == createWorklet(arg) IN
       /\ phase' = IF made.threw = "none" THEN "alive" ELSE "failed"
       /\ ctorError' = made.threw
       /\ worklet' = made.worklet
  /\ UNCHANGED <<impl, arg, workletFunction, owningContext, runtimeCache,
                 jsThis, heap, stack, queue, released, callLog, lastCall>>

\* ts 163-165, 516-517.
ConstructTs ==
  /\ phase = "new"
  /\ impl = "ts"
  /\ LET made == createWorkletTs(arg) IN
       /\ phase' = IF made.threw = "none" THEN "alive" ELSE "failed"
       /\ ctorError' = made.threw
       /\ worklet' = made.worklet
  /\ UNCHANGED <<impl, arg, workletFunction, owningContext, runtimeCache,
                 jsThis, heap, stack, queue, released, callLog, lastCall>>

\* The outcome of a static predicate, as the last completed call.
Answered(r) == [t |-> "isDecoratedAsWorklet", raised |-> r.raised,
                result |-> r.result]

\* cpp 130-144: a collaborator asks whether arg is decorated as a worklet.
IsDecoratedAsWorklet ==
  /\ impl = "cpp"
  /\ lastCall = NoCall
  /\ lastCall' = Answered(isDecoratedAsWorklet(arg))
  /\ UNCHANGED <<impl, arg, phase, ctorError, worklet, workletFunction,
                 owningContext, runtimeCache, jsThis, heap, stack, queue,
                 released, callLog>>

\* ts 205-223.
IsDecoratedAsWorkletTs ==
  /\ impl = "ts"
  /\ lastCall = NoCall
  /\ lastCall' = Answered(isDecoratedAsWorkletTs(arg))
  /\ UNCHANGED <<impl, arg, phase, ctorError, worklet, workletFunction,
                 owningContext, runtimeCache, jsThis, heap, stack, queue,
                 released, callLog>>

(***************************************************************************)
(* WorkletInvoker::call.  A call is made on the thread of its runtime; a   *)
(* running worklet body may call the invoker again in its own runtime.     *)
(***************************************************************************)
Top == stack[Len(stack)]

CanCall(rt) ==
  /\ phase = "alive"
  /\ Len(callLog) < MaxCalls
  /\ \/ stack = <<>>
     \/ /\ stack # <<>>
        /\ Len(stack) < MaxDepth
        /\ Top.handle.kind = "real"
        /\ Top.rt = rt

\* The entry of callLog and, when the call ended before the body ran,
\* the record of the completed call.
LogEntry(rt, fn, needs, made, outcome, c) ==
  [rt |-> rt, handle |-> fn, materialized |-> needs,
   evaluated |-> needs /\ made.evaluated,
   outcome |-> IF needs THEN outcome ELSE "none",
   invoked |-> ~c.raised]

Completed(rt, fn, legacy, bodyRan, raised, res, pre, post, depth) ==
  [t |-> "call", rt |-> rt, handle |-> fn, legacy |-> legacy,
   bodyRan |-> bodyRan, raised |-> raised, propagated |-> res.propagated, value |-> res.value,
   preThis |-> pre, postThis |-> post, depth |-> depth]

\* A slot test that always asks for a new callable.
alwaysMaterialize(slot) == TRUE

\* cpp 486: _workletFunction == nullptr.
notMaterialized(slot) == slot = NullPtr

\* ts 521: _workletFunction.get(runtime) == nullptr.
notMaterializedTs(slot) == slot = NullPtr

\* recordOwningContext that takes the context of every call.
recordOwningContextEveryCall(needs, rt, owning) == getCurrent(rt)

\* cpp 490-495: the owning context is assigned inside the branch that
\* materializes.
recordOwningContext(needs, rt, owning) ==
  IF needs THEN getCurrent(rt) ELSE owning

\* A call that moves the closure wrapper out of the descriptor.
workletAfterCallMovedOut(w) == [w EXCEPT !.closureWrapper = NullPtr]

\* cpp 187-232, 237-289: the members of the JsiWorklet once
\* createWorkletJsFunction and call have read them; neither assigns one,
\* and unwrap is handed the wrapper without taking it.
workletAfterCall(w) == w

\* ts 258-299, 301-353.
workletAfterCallTs(w) == workletAfterCall(w)

\* cpp 484-503: materialize on the first call, then enter JsiWorklet::call.
invokerCall(rt, thisValue, outcome, unwrapThrows) ==
  /\ impl = "cpp"
  /\ CanCall(rt)
  /\ LET needs == notMaterialized(workletFunction)
         id == Len(callLog) + 1
         made == createWorkletJsFunction(worklet, rt, outcome, id)
         fn == IF needs THEN made.handle ELSE workletFunction
         c == workletCall(worklet, fn, rt, thisValue, unwrapThrows, id,
                          jsThis, heap)
     IN /\ workletFunction' = fn
        /\ worklet' = workletAfterCall(worklet)
        /\ owningContext' = recordOwningContext(needs, rt, owningContext)
        /\ callLog' = Append(callLog, LogEntry(rt, fn, needs, made, outcome, c))
        /\ jsThis' = c.global
        /\ heap' = c.objs
        /\ IF c.raised
           THEN /\ stack' = stack
                /\ lastCall' = Completed(rt, fn, ~worklet.isRea30Compat, FALSE, TRUE,
                                         callResult(TRUE, Undefined),
                                         jsThis[rt], c.global[rt],
                                         Len(stack) + 1)
           ELSE /\ stack' = Append(stack, c.frame)
                /\ lastCall' = lastCall
  /\ UNCHANGED <<impl, arg, phase, ctorError, runtimeCache, queue, released>>

\* ts 519-526: the slot of the runtime in the RuntimeAwareCache.
invokerCallTs(rt, thisValue, outcome, unwrapThrows) ==
  /\ impl = "ts"
  /\ CanCall(rt)
  /\ LET needs == notMaterializedTs(runtimeCache[rt])
         id == Len(callLog) + 1
         made == createWorkletJsFunctionTs(worklet, rt, outcome, id)
         fn == IF needs THEN made.handle ELSE runtimeCache[rt]
         c == workletCallTs(worklet, fn, rt, thisValue, unwrapThrows, id,
                            jsThis, heap)
     IN /\ runtimeCache' = [runtimeCache EXCEPT ![rt] = fn]
        /\ worklet' = workletAfterCallTs(worklet)
        /\ callLog' = Append(callLog, LogEntry(rt, fn, needs, made, outcome, c))
        /\ jsThis' = c.global
        /\ heap' = c.objs
        /\ IF c.raised
           THEN /\ stack' = stack
                /\ lastCall' = Completed(rt, fn, ~worklet.isRea30Compat, FALSE, TRUE,
                                         callResultTs(TRUE, Undefined),
                                         jsThis[rt], c.global[rt],
                                         Len(stack) + 1)
           ELSE /\ stack' = Append(stack, c.frame)
                /\ lastCall' = lastCall
  /\ UNCHANGED <<impl, arg, phase, ctorError, workletFunction,
                 owningContext, queue, released>>

\* The value a body hands back: the no-op callable returns undefined.
BodyValue(frame) == IF frame.handle.kind = "noop" THEN Undefined ELSE Number

Pop(frame) ==
  /\ stack' = SubSeq(stack, 1, Len(stack) - 1)
  /\ heap' = [i \in DOMAIN heap \ ({frame.created} \ {0}) |-> heap[i]]

\* cpp 280-288, 501-513: the body returns or raises, the JsThisWrapper of
\* a legacy call is destroyed, and the call returns to its caller.
invokerReturn(raises) ==
  /\ impl = "cpp"
  /\ stack # <<>>
  /\ raises => Top.handle.kind = "real"
  /\ LET frame == Top
         global == IF frame.legacy
                   THEN JsThisWrapperDtor(jsThis, frame.rt, frame.oldThis)
                   ELSE jsThis
     IN /\ jsThis' = global
        /\ Pop(frame)
        /\ lastCall' = Completed(frame.rt, frame.handle, frame.legacy, TRUE, raises,
                                 callResult(raises, BodyValue(frame)),
                                 frame.preThis, global[frame.rt], Len(stack))
  /\ UNCHANGED <<impl, arg, phase, ctorError, worklet, workletFunction,
                 owningContext, runtimeCache, queue, released, callLog>>

\* ts 344-352, 525-526.
invokerReturnTs(raises) ==
  /\ impl = "ts"
  /\ stack # <<>>
  /\ raises => Top.handle.kind = "real"
  /\ LET frame == Top
         global == IF frame.legacy
                   THEN JsThisWrapperDtor(jsThis, frame.rt, frame.oldThis)
                   ELSE jsThis
     IN /\ jsThis' = global
        /\ Pop(frame)
        /\ lastCall' = Completed(frame.rt, frame.handle, frame.legacy, TRUE, raises,
                                 callResultTs(raises, BodyValue(frame)),
                                 frame.preThis, global[frame.rt], Len(stack))
  /\ UNCHANGED <<impl, arg, phase, ctorError, worklet, workletFunction,
                 owningContext, runtimeCache, queue, released, callLog>>

(***************************************************************************)
(* Disposal.                                                               *)
(***************************************************************************)
\* A destructor that posts its task whether or not it holds a handle.
DestroyAlwaysPosts(thread) ==
  /\ impl = "cpp"
  /\ phase = "alive"
  /\ stack = <<>>
  /\ phase' = "destroyed"
  /\ workletFunction' = NullPtr
  /\ queue' = invokeOnThread(queue, disposalContext(owningContext),
                             [tmp |-> workletFunction, from |-> thread])
  /\ UNCHANGED <<impl, arg, ctorError, worklet, owningContext, runtimeCache,
                 jsThis, heap, stack, released, callLog, lastCall>>

\* A destructor that waits until the owning thread has run the task.
DestroyAndWait(thread) ==
  /\ impl = "cpp"
  /\ phase = "alive"
  /\ stack = <<>>
  /\ phase' = "destroyed"
  /\ workletFunction' = NullPtr
  /\ IF workletFunction # NullPtr
     THEN released' = released \cup
                        {[handle |-> workletFunction,
                          thread |-> disposalContext(owningContext).rt,
                          destroyedOn |-> thread]}
     ELSE released' = released
  /\ UNCHANGED <<impl, arg, ctorError, worklet, owningContext, runtimeCache,
                 jsThis, heap, stack, queue, callLog, lastCall>>

\* cpp 468-482: ~WorkletInvoker, run on any thread while no call is active.
\* The task is the only owner of the handle once the destructor is done.
Destroy(thread) ==
  /\ impl = "cpp"
  /\ phase = "alive"
  /\ stack = <<>>
  /\ phase' = "destroyed"
  /\ workletFunction' = NullPtr
  /\ IF workletFunction # NullPtr
     THEN queue' = invokeOnThread(queue, disposalContext(owningContext),
                                  [tmp |-> workletFunction, from |-> thread])
     ELSE queue' = queue
  /\ UNCHANGED <<impl, arg, ctorError, worklet, owningContext, runtimeCache,
                 jsThis, heap, stack, released, callLog, lastCall>>

\* A task of another component, which holds no handle.
OtherTask == [tmp |-> NullPtr, from |-> "other"]

\* Another component posts a task to the thread of a context.
PostTask(ctx) ==
  /\ Len(queue[ctx]) < MaxPending
  /\ queue' = invokeOnThread(queue, Context(ctx), OtherTask)
  /\ UNCHANGED <<impl, arg, phase, ctorError, worklet, workletFunction,
                 owningContext, runtimeCache, jsThis, heap, stack, released,
                 callLog, lastCall>>

\* A task run whose lambda leaves tmp as it is: the reference stays.
RunTaskKeepsReference(ctx) ==
  /\ queue[ctx] # <<>>
  /\ queue' = [queue EXCEPT ![ctx] = Tail(@)]
  /\ UNCHANGED <<impl, arg, phase, ctorError, worklet, workletFunction,
                 owningContext, runtimeCache, jsThis, heap, stack, released,
                 callLog, lastCall>>

\* The thread of a context runs the task at the head of its FIFO: the
\* disposal lambda sets tmp to nullptr, which drops the last reference.
RunTask(ctx) ==
  /\ queue[ctx] # <<>>
  /\ queue' = [queue EXCEPT ![ctx] = Tail(@)]
  /\ released' = IF Head(queue[ctx]).tmp = NullPtr
                 THEN released
                 ELSE released \cup {[handle |-> Head(queue[ctx]).tmp,
                                      thread |-> ctx,
                                      destroyedOn |-> Head(queue[ctx]).from]}
  /\ UNCHANGED <<impl, arg, phase, ctorError, worklet, workletFunction,
                 owningContext, runtimeCache, jsThis, heap, stack, callLog,
                 lastCall>>

Next ==
  \/ Construct
  \/ ConstructTs
  \/ \E rt \in Runtimes, thisValue \in ThisValues, outcome \in EvalOutcomes,
        unwrapThrows \in BOOLEAN :
       invokerCall(rt, thisValue, outcome, unwrapThrows)
  \/ \E rt \in Runtimes, thisValue \in ThisValues, outcome \in EvalOutcomes,
        unwrapThrows \in BOOLEAN :
       invokerCallTs(rt, thisValue, outcome, unwrapThrows)
  \/ \E raises \in BOOLEAN : invokerReturn(raises)
  \/ \E raises \in BOOLEAN : invokerReturnTs(raises)
  \/ \E thread \in Threads : Destroy(thread)
  \/ \E ctx \in Runtimes : RunTask(ctx)

Spec == Init /\ [][Next]_vars

NextCreate == Construct \/ ConstructTs

SpecCreate == InitCreate /\ [][NextCreate]_vars

\* Disposal next to the tasks of other components (the cpp copy, which
\* has the destructor).
DisposeFunctions ==
  {Function(InitDataObject(Str("file.js"), Str(SampleCode)), Undefined,
            Undefined, Undefined, Undefined, Str("add"), Undefined)}

InitDispose == arg \in DisposeFunctions /\ InitRest /\ impl = "cpp"

NextDispose ==
  \/ Construct
  \/ \E rt \in Runtimes, thisValue \in ThisValues, outcome \in EvalOutcomes,
        unwrapThrows \in BOOLEAN :
       invokerCall(rt, thisValue, outcome, unwrapThrows)
  \/ \E raises \in BOOLEAN : invokerReturn(raises)
  \/ \E ctx \in Runtimes : PostTask(ctx)
  \/ \E thread \in Threads : Destroy(thread)
  \/ \E ctx \in Runtimes : RunTask(ctx)

SpecDispose == InitDispose /\ [][NextDispose]_vars

\* The thread of every context keeps taking the task at the head of its
\* FIFO while there is one.
SpecDisposeFair ==
  /\ InitDispose
  /\ [][NextDispose]_vars
  /\ \A ctx \in Runtimes : WF_vars(RunTask(ctx))

\* Calls of worklets of both encodings whose closure properties take
\* every kind: absent, null, or a closure.
ClosureFunctions ==
  {Function(initData, asString, Str("file.js"), closure, closureLegacy,
            Str("add"), Undefined) :
     initData \in {InitDataObject(Str("file.js"), Str(SampleCode))},
     asString \in {Undefined},
     closure \in ClosureValues("c1"),
     closureLegacy \in ClosureValues("c2")}
  \cup
  {Function(initData, asString, Str("file.js"), closure, closureLegacy,
            Str("add"), Undefined) :
     initData \in {Undefined},
     asString \in {Str(SampleCode)},
     closure \in ClosureValues("c1"),
     closureLegacy \in ClosureValues("c2")}

InitClosure == arg \in ClosureFunctions /\ InitRest

NextClosure ==
  \/ Construct
  \/ ConstructTs
  \/ \E rt \in Runtimes, thisValue \in ThisValues, outcome \in EvalOutcomes,
        unwrapThrows \in BOOLEAN :
       invokerCall(rt, thisValue, outcome, unwrapThrows)
  \/ \E rt \in Runtimes, thisValue \in ThisValues, outcome \in EvalOutcomes,
        unwrapThrows \in BOOLEAN :
       invokerCallTs(rt, thisValue, outcome, unwrapThrows)
  \/ \E raises \in BOOLEAN : invokerReturn(raises)
  \/ \E raises \in BOOLEAN : invokerReturnTs(raises)

SpecClosure == InitClosure /\ [][NextClosure]_vars

NextDecorated == IsDecoratedAsWorklet \/ IsDecoratedAsWorkletTs

SpecDecorated == InitDecorated /\ [][NextDecorated]_vars


(***************************************************************************)
(* Properties of descriptor construction (checked under SpecCreate).       *)
(***************************************************************************)
RECURSIVE TrimLeft(_)
TrimLeft(s) == IF s # <<>> /\ Head(s) = " " THEN TrimLeft(Tail(s)) ELSE s

RECURSIVE TrimRight(_)
TrimRight(s) ==
  IF s # <<>> /\ s[Len(s)] = " "
  THEN TrimRight(SubSeq(s, 1, Len(s) - 1)) ELSE s

Trim(s) == TrimRight(TrimLeft(s))

OnlyWhitespace(s) == \A i \in 1..Len(s) : s[i] = " "

\* The encodings as section 4.1 of the specification words them.
ModernEncoded(f) ==
  /\ isFunction(f)
  /\ isObject(f.initData)
  /\ isString(f.initData.location)
  /\ isString(f.initData.code)

LegacyEncoded(f) ==
  /\ isFunction(f)
  /\ ~isObject(f.initData)
  /\ isString(f.asString)
  /\ isString(f.location)

CapturedCode(f) == IF isObject(f.initData) THEN f.initData.code.s ELSE f.asString.s

ConstructorDone == phase # "new"
RaisedValidationError == phase = "failed" /\ ctorError = ErrEmptyCode

C9_WellFormedModernSucceeds ==
  (ConstructorDone /\ isFunction(arg) /\ isObject(arg.initData)
     /\ isString(arg.initData.code)
     /\ ~OnlyWhitespace(arg.initData.code.s)
     /\ Len(arg.initData.code.s) > 3)
  => (phase = "alive" /\ worklet.isWorklet /\ worklet.isRea30Compat)

\* C10: an init-data object whose code is missing or no string makes
\* construction fail softly: no error, and the descriptor is no worklet.
C10_MissingCodeFailsSoftly ==
  (ConstructorDone /\ isFunction(arg) /\ isObject(arg.initData)
     /\ ~isString(arg.initData.code))
  => (phase = "alive" /\ ctorError = "none" /\ ~worklet.isWorklet)

\* The code test itself decided: the location was a string, the code a
\* number, and even valid legacy properties were present.
C10_Witness ==
  /\ phase = "alive"
  /\ impl = "cpp"
  /\ isFunction(arg) /\ isObject(arg.initData)
  /\ isString(arg.initData.location)
  /\ arg.initData.code = Number
  /\ ~worklet.isWorklet

\* C11: without an init-data object, a stringified-source property or a
\* location property that is absent or no string makes construction fail
\* softly: no error, and the descriptor is no worklet.
C11_MissingLegacyPropertyFailsSoftly ==
  (ConstructorDone /\ isFunction(arg) /\ ~isObject(arg.initData)
     /\ (~isString(arg.asString) \/ ~isString(arg.location)))
  => (phase = "alive" /\ ctorError = "none" /\ ~worklet.isWorklet)

\* A worklet text was there, the location was not.
C11_Witness ==
  /\ phase = "alive"
  /\ isFunction(arg) /\ ~isObject(arg.initData)
  /\ arg.asString = Str(SampleCode)
  /\ ~isString(arg.location)
  /\ ~worklet.isWorklet

\* C16: a Modern-encoding captured function with valid code whose
\* init-data location is missing or no string is constructed without
\* error, is a worklet, and has the location "(unknown)".
C16_MissingLocationDefaults ==
  (ConstructorDone /\ isFunction(arg) /\ isObject(arg.initData)
     /\ isString(arg.initData.code)
     /\ ~OnlyWhitespace(arg.initData.code.s)
     /\ Len(arg.initData.code.s) > 3
     /\ ~isString(arg.initData.location))
  => (phase = "alive" /\ ctorError = "none" /\ worklet.isWorklet
      /\ worklet.location = "(unknown)")

\* C18: with an init-data object only the Modern path is taken.  The
\* descriptor holds nothing of the legacy source or location: its text is
\* the init-data code or none, a worklet made has the Modern encoding,
\* and an init-data object without code fails softly whatever the legacy
\* properties hold.
C18_InitDataExcludesLegacy ==
  (ConstructorDone /\ isFunction(arg) /\ isObject(arg.initData))
  => /\ worklet.code # <<>>
        => (isString(arg.initData.code)
            /\ worklet.code = arg.initData.code.s)
     /\ worklet.location # "legacy.js"
     /\ worklet.isWorklet => worklet.isRea30Compat
     /\ ~isString(arg.initData.code)
        => (phase = "alive" /\ ctorError = "none" /\ ~worklet.isWorklet
            /\ worklet.code = <<>>)

\* The Modern path failed softly next to valid legacy properties.
C18_Witness ==
  /\ phase = "alive"
  /\ isFunction(arg) /\ isObject(arg.initData)
  /\ isString(arg.initData.location)
  /\ ~isString(arg.initData.code)
  /\ arg.asString = Str(SampleCode)
  /\ arg.location = Str("legacy.js")
  /\ ~worklet.isWorklet /\ worklet.code = <<>>

\* C26: a value that is no object or no function makes the constructor
\* raise "Worklets must be initialized from a valid function."; a
\* descriptor that is constructed and is no worklet comes from a
\* function value only.
C26_NonFunctionRaises ==
  ConstructorDone
  => /\ arg.t # "function"
        => /\ phase = "failed"
           /\ ctorError
                = "Worklets must be initialized from a valid function."
     /\ (phase = "alive" /\ ~worklet.isWorklet) => arg.t = "function"

\* An object that is no function was refused.
C26_Witness ==
  /\ arg = PlainObject
  /\ phase = "failed"
  /\ ctorError = "Worklets must be initialized from a valid function."

(***************************************************************************)
(* Properties of isDecoratedAsWorklet (checked under SpecDecorated).       *)
(***************************************************************************)
\* A property counts as carried when it has the kind the predicate asks
\* for: the hash marker is a string, a closure is neither undefined nor
\* null, the init-data is an object, the legacy source is a string.
CarriesHashMarker(f) == f.workletHash.t = "string"

CarriesClosure(f) ==
  \/ f.closure.t \notin {"undefined", "null"}
  \/ f.closureLegacy.t \notin {"undefined", "null"}

CarriesSource(f) ==
  f.initData.t \in {"object", "function"} \/ f.asString.t = "string"

\* C12: isDecoratedAsWorklet answers true exactly for a function that
\* carries a worklet-hash marker, or carries a closure under either name
\* together with an init-data object or a legacy source string; for every
\* other value it answers false, and it never raises.
C12_DecoratedExactlyWhenMarked ==
  (lastCall # NoCall /\ lastCall.t = "isDecoratedAsWorklet")
  => /\ ~lastCall.raised
     /\ lastCall.result
          = (/\ arg.t = "function"
             /\ \/ CarriesHashMarker(arg)
                \/ CarriesClosure(arg) /\ CarriesSource(arg))

\* Decorated through the legacy closure name and the legacy source alone.
C12_Witness ==
  /\ lastCall # NoCall /\ lastCall.t = "isDecoratedAsWorklet"
  /\ lastCall.result
  /\ arg.t = "function"
  /\ ~CarriesHashMarker(arg)
  /\ arg.closure = Null /\ arg.closureLegacy = ClosureValue("c2")
  /\ arg.initData = Undefined /\ arg.asString = Str(SampleCode)

(***************************************************************************)
(* Properties of the invoker (checked under Spec).                         *)
(***************************************************************************)
\* C2: a call whose body, or whose closure unwrap, raised returns
\* undefined to its caller and propagates nothing.
C2_CallNeverPropagates ==
  (lastCall # NoCall /\ lastCall.raised)
  => (~lastCall.propagated /\ lastCall.value = Undefined)

FailedOutcomes == {"JSError", "exception", "nonobject", "object"}

\* C3: when evaluating the source text throws, yields a non-object or
\* yields an object that is no function, the callable stored is the no-op
\* callable, and a call of the no-op callable returns undefined.
C3_MaterializationFailureGivesNoop ==
  /\ \A i \in DOMAIN callLog :
       (callLog[i].materialized /\ callLog[i].outcome \in FailedOutcomes)
       => callLog[i].handle.kind = "noop"
  /\ (lastCall # NoCall /\ lastCall.bodyRan /\ lastCall.handle.kind = "noop")
     => (~lastCall.propagated /\ lastCall.value = Undefined)

\* The text evaluated to an object that is no function, and the call of
\* the no-op callable put in its place has returned.
C3_Witness ==
  /\ lastCall # NoCall /\ lastCall.bodyRan
  /\ lastCall.handle.kind = "noop"
  /\ \E i \in DOMAIN callLog :
       /\ callLog[i].materialized /\ callLog[i].evaluated
       /\ callLog[i].outcome = "object"
       /\ callLog[i].handle = lastCall.handle

\* C4: over the calls of one invoker in one environment the source text
\* is materialized once, by the first call; a later call in an environment
\* already called neither materializes nor evaluates, and it invokes the
\* callable the earlier call used.
C4_MaterializedOnce ==
  /\ callLog # <<>> => callLog[1].materialized
  /\ \A i, j \in DOMAIN callLog :
       (i < j /\ callLog[i].rt = callLog[j].rt)
       => /\ ~callLog[j].materialized
          /\ ~callLog[j].evaluated
          /\ callLog[j].handle = callLog[i].handle

\* Three calls in one environment, the first of which evaluated the text.
C4_Witness ==
  /\ Len(callLog) = 3
  /\ callLog[1].evaluated /\ callLog[1].handle.kind = "real"
  /\ \A i \in DOMAIN callLog : callLog[i].rt = "wk1" /\ callLog[i].invoked

\* C5: the callable invoked by call(env, ...) was materialized in env.
C5_HandleInvokedInItsOwnEnvironment ==
  \A i \in DOMAIN callLog :
    callLog[i].invoked => callLog[i].handle.rt = callLog[i].rt

C7_LegacyRestoresJsThis ==
  (lastCall # NoCall /\ lastCall.legacy)
  => lastCall.postThis = lastCall.preThis

\* A nested Legacy call whose body raised: jsThis is the outer call's
\* object again.
C7_Witness ==
  /\ lastCall # NoCall /\ lastCall.legacy
  /\ lastCall.bodyRan /\ lastCall.raised
  /\ lastCall.depth = 2
  /\ isObject(lastCall.preThis)
  /\ lastCall.postThis = lastCall.preThis

\* The object whose closure properties the running body reads: the
\* receiver in Modern mode, global.jsThis in Legacy mode.
ClosureCarrier(frame) ==
  IF frame.legacy THEN jsThis[frame.rt] ELSE frame.receiver

PropsOf(ref) ==
  IF isObject(ref) /\ ref.id \in DOMAIN heap THEN heap[ref.id] ELSE EmptyProps

\* The closure the captured function carries, as createWorklet picks it.
CapturedClosure ==
  IF ~isUndefined(arg.closure) /\ ~isNull(arg.closure)
  THEN arg.closure ELSE arg.closureLegacy

\* C8: in both encodings, while the body of a worklet with a closure
\* bundle runs, _closure and __closure hold the same injected value.
C8_BothClosureNamesAgree ==
  (stack # <<>> /\ worklet.closureWrapper # NullPtr)
  => LET props == PropsOf(ClosureCarrier(Top)) IN
       /\ props.closure = props.closureLegacy
       /\ isObject(props.closure)
       /\ props.closure.content = CapturedClosure.content
       /\ props.closure.env = Top.rt

\* A Legacy body and, nested in it, nothing else: the closure is on jsThis.
C8_Witness ==
  /\ stack # <<>> /\ worklet.closureWrapper # NullPtr
  /\ Top.legacy /\ Top.handle.kind = "real"
  /\ PropsOf(jsThis[Top.rt]).closureLegacy.content = "c2"


(***************************************************************************)
(* Properties of the invoker's life cycle (checked under Spec).            *)
(***************************************************************************)
\* The handles the invoker has handed over for disposal.
HandedOver ==
  (UNION {{queue[ctx][i].tmp : i \in 1..Len(queue[ctx])} : ctx \in Runtimes}
    \cup {r.handle : r \in released}) \ {NullPtr}

InvokerState ==
  IF workletFunction # NullPtr THEN "Materialized"
  ELSE IF HandedOver # {} THEN "Disposed"
  ELSE "NotMaterialized"

StateRank(st) ==
  CASE st = "NotMaterialized" -> 0
    [] st = "Materialized" -> 1
    [] st = "Disposed" -> 2

\* C13: the invoker only moves forward, from NotMaterialized over
\* Materialized to Disposed.  A stored handle is never replaced by a call
\* and is given up by the destructor alone; once the handle is handed
\* over for disposal nothing is materialized or invoked any more.
C13_InvokerMovesForward ==
  [][/\ StateRank(InvokerState') >= StateRank(InvokerState)
     /\ (workletFunction # NullPtr /\ workletFunction' # NullPtr)
        => workletFunction' = workletFunction
     /\ (workletFunction # NullPtr /\ workletFunction' = NullPtr)
        => (phase = "alive" /\ phase' = "destroyed"
            /\ workletFunction \in HandedOver')
     /\ \A rt \in Runtimes :
          runtimeCache[rt] # NullPtr => runtimeCache'[rt] = runtimeCache[rt]
     /\ InvokerState = "Disposed"
        => (phase = "destroyed" /\ phase' = "destroyed"
            /\ callLog' = callLog /\ stack' = stack)]_vars

\* Two calls used one handle, then the invoker was destroyed and the
\* handle released.
C13_Witness ==
  /\ InvokerState = "Disposed"
  /\ Len(callLog) >= 2
  /\ callLog[1].materialized /\ ~callLog[2].materialized
  /\ callLog[2].handle = callLog[1].handle
  /\ \E r \in released : r.handle = callLog[1].handle

\* C15: a constructed descriptor never changes.  No step after the
\* constructor alters the source text, the location, the name, the
\* encoding or the closure bundle, whatever is materialized or called and
\* in whichever environment the bundle is unwrapped.
C15_DescriptorImmutable ==
  [][phase # "new"
     => /\ worklet'.code = worklet.code
        /\ worklet'.location = worklet.location
        /\ worklet'.name = worklet.name
        /\ worklet'.isRea30Compat = worklet.isRea30Compat
        /\ worklet'.closureWrapper = worklet.closureWrapper
        /\ worklet'.isWorklet = worklet.isWorklet]_vars

\* The bundle was unwrapped in two environments and is still the
\* snapshot of the captured closure.
C15_Witness ==
  /\ Len(callLog) >= 2
  /\ callLog[1].rt # callLog[2].rt
  /\ callLog[1].invoked /\ callLog[2].invoked
  /\ worklet.closureWrapper # NullPtr
  /\ worklet.closureWrapper.snapshot = CapturedClosure
  /\ worklet.code = SampleCode

\* The context a call in the runtime rt finds as the current one.
ContextOfRuntime(rt) ==
  IF rt = "js" THEN [t |-> "nullptr"] ELSE [t |-> "context", rt |-> rt]

\* C19: the owning context is recorded once, by the call that
\* materializes: it is the current context of the runtime of the first
\* call (none for the default runtime), no later call materializes or
\* changes it, and the disposal goes to the thread of that context.
C19_OwningContextFromFirstCall ==
  impl = "cpp"
  => /\ callLog = <<>> => owningContext = [t |-> "nullptr"]
     /\ callLog # <<>>
        => /\ callLog[1].materialized
           /\ \A i \in 2..Len(callLog) : ~callLog[i].materialized
           /\ owningContext = ContextOfRuntime(callLog[1].rt)
           /\ \A ctx \in Runtimes :
                queue[ctx] # <<>> => ctx = callLog[1].rt
           /\ \A r \in released : r.thread = callLog[1].rt

\* Materialized in a worklet runtime, called again from the default
\* runtime, released on the worklet thread.
C19_Witness ==
  /\ impl = "cpp"
  /\ Len(callLog) >= 2
  /\ callLog[1].rt = "wk1" /\ callLog[2].rt = "js"
  /\ callLog[2].invoked
  /\ owningContext = [t |-> "context", rt |-> "wk1"]
  /\ \E r \in released : r.thread = "wk1" /\ r.handle = callLog[1].handle

\* The object a call created is no object of any other activation.
FreshIn(i) ==
  /\ stack[i].created # 0
  /\ \A j \in 1..Len(stack) : j # i => stack[j].created # stack[i].created

\* C20: the encoding chooses the receiver.  A Modern call runs on
\* thisValue when that is an object and on a fresh object otherwise,
\* empty but for the closure.  A Legacy call runs on thisValue when that
\* is an object and without a receiver otherwise; its closure is on a
\* fresh object installed as jsThis, never on the receiver.
C20_ReceiverByEncoding ==
  \A i \in 1..Len(stack) :
    LET f == stack[i] IN
      /\ f.thisValue.t = "object" => f.receiver = f.thisValue
      /\ (~f.legacy /\ f.thisValue.t # "object")
         => /\ f.receiver = [t |-> "object", id |-> f.created]
            /\ FreshIn(i)
            /\ heap[f.created].closure = f.unwrappedClosure
            /\ heap[f.created].closureLegacy = f.unwrappedClosure
      /\ (f.legacy /\ f.thisValue.t # "object")
         => f.receiver = [t |-> "none"]
      /\ f.legacy
         => /\ FreshIn(i)
            /\ f.receiver # [t |-> "object", id |-> f.created]
            /\ heap[f.created].closure = f.unwrappedClosure
            /\ heap[0] = EmptyProps
            /\ i = Len(stack)
               => jsThis[f.rt] = [t |-> "object", id |-> f.created]

\* A Legacy worklet with a closure runs on the caller's object, which
\* holds no closure; the closure is on the jsThis object.
C20_Witness ==
  /\ stack # <<>>
  /\ Top.legacy /\ Top.handle.kind = "real"
  /\ Top.thisValue = CallerThis /\ Top.receiver = CallerThis
  /\ worklet.closureWrapper # NullPtr
  /\ PropsOf(CallerThis) = EmptyProps
  /\ jsThis[Top.rt] # CallerThis
  /\ PropsOf(jsThis[Top.rt]).closure.content = CapturedClosure.content

\* C21: an invoker destroyed before any call was made on it has posted
\* no task: the queue of every context is empty and nothing is released.
C21_NoTaskWithoutHandle ==
  (phase = "destroyed" /\ callLog = <<>>)
  => (released = {} /\ \A ctx \in Runtimes : queue[ctx] = <<>>)

\* Built around a worklet, never called, destroyed.
C21_Witness ==
  /\ phase = "destroyed" /\ callLog = <<>>
  /\ worklet.isWorklet
  /\ workletFunction = NullPtr

\* The call logged at j comes after a call in the same runtime whose
\* materialization failed and stored the no-op callable.
AfterFailedMaterialization(j) ==
  \E i \in 1..(j - 1) :
    /\ callLog[i].rt = callLog[j].rt
    /\ callLog[i].materialized
    /\ callLog[i].handle.kind = "noop"

\* The no-op callable stays: a later call in that runtime neither
\* materializes nor evaluates, and uses the no-op callable stored.
NoopNeverRetried ==
  \A j \in DOMAIN callLog :
    AfterFailedMaterialization(j)
    => /\ ~callLog[j].materialized
       /\ ~callLog[j].evaluated
       /\ \E i \in 1..(j - 1) :
            /\ callLog[i].rt = callLog[j].rt
            /\ callLog[i].materialized
            /\ callLog[j].handle = callLog[i].handle

\* C22: a failed materialization is never retried.  The no-op callable
\* stored by the first call is what every later call in that runtime
\* uses, without evaluating the text again, and such a call returns
\* undefined, whether it ran the no-op callable or ended before it.
C22_FailedMaterializationNotRetried ==
  /\ NoopNeverRetried
  /\ (/\ lastCall # NoCall /\ lastCall.t = "call"
      /\ lastCall.handle.kind = "noop"
      /\ callLog # <<>> /\ AfterFailedMaterialization(Len(callLog))
      /\ \/ lastCall.bodyRan
         \/ ~callLog[Len(callLog)].invoked)
     => (~lastCall.propagated /\ lastCall.value = Undefined)

\* C23: an invoker around a descriptor that is no worklet (its text is
\* empty) never evaluates anything: each call finds or stores the no-op
\* callable without an evaluation, runs it, and returns undefined.
C23_SoftInvalidNeverEvaluates ==
  (phase \in {"alive", "destroyed"} /\ ~worklet.isWorklet)
  => /\ worklet.code = <<>>
     /\ \A i \in DOMAIN callLog :
          /\ ~callLog[i].evaluated
          /\ callLog[i].handle.kind = "noop"
          /\ callLog[i].invoked
     /\ (lastCall # NoCall /\ lastCall.t = "call")
        => (~lastCall.raised /\ ~lastCall.propagated
            /\ lastCall.value = Undefined)

\* A function with a closure but no source was wrapped, called, and the
\* call has returned.
C23_Witness ==
  /\ phase = "alive" /\ ~worklet.isWorklet
  /\ arg.closure # Undefined
  /\ callLog # <<>> /\ callLog[1].materialized
  /\ lastCall # NoCall /\ lastCall.t = "call" /\ lastCall.bodyRan
  /\ lastCall.value = Undefined

\* C24: Legacy calls nest as a stack.  While Legacy activations are
\* open, jsThis of their runtime is the object of the innermost one, each
\* activation holds the object of the one around it to put back, and
\* the outermost holds the value from before the calls; when none is
\* open, jsThis is that value again, however the calls ended.
C24_LegacyCallsNest ==
  (phase \in {"alive", "destroyed"} /\ ~worklet.isRea30Compat)
  => /\ stack = <<>> => \A rt \in Runtimes : jsThis[rt] = Undefined
     /\ stack # <<>>
        => /\ jsThis[Top.rt] = [t |-> "object", id |-> Top.created]
           /\ stack[1].oldThis = Undefined
           /\ \A i \in 2..Len(stack) :
                /\ stack[i].rt = stack[i - 1].rt
                /\ stack[i].created # stack[i - 1].created
                /\ stack[i].oldThis
                     = [t |-> "object", id |-> stack[i - 1].created]
           /\ \A rt \in Runtimes \ {Top.rt} : jsThis[rt] = Undefined

\* An inner Legacy call has raised and returned; the outer activation is
\* still open and jsThis is its object again.
C24_Witness ==
  /\ ~worklet.isRea30Compat
  /\ Len(stack) = 1
  /\ lastCall # NoCall /\ lastCall.t = "call"
  /\ lastCall.legacy /\ lastCall.bodyRan /\ lastCall.raised
  /\ lastCall.depth = 2
  /\ lastCall.preThis = [t |-> "object", id |-> Top.created]
  /\ jsThis[Top.rt] = [t |-> "object", id |-> Top.created]

(***************************************************************************)
(* Properties of the closure bundle (checked under SpecClosure).           *)
(***************************************************************************)
\* A closure property is present when it is neither undefined nor null.
Present(v) == v.t \notin {"undefined", "null"}

\* C17: the closure bundle is the snapshot of _closure when that is
\* present, else of __closure when that is present.  With neither, the
\* descriptor is still a worklet, it has no bundle, every call takes
\* undefined as its closure, and no object is given a closure property.
C17_ClosureExtraction ==
  ConstructorDone
  => /\ phase # "failed" /\ worklet.isWorklet
     /\ Present(arg.closure)
        => /\ worklet.closureWrapper # NullPtr
           /\ worklet.closureWrapper.snapshot = arg.closure
     /\ (~Present(arg.closure) /\ Present(arg.closureLegacy))
        => /\ worklet.closureWrapper # NullPtr
           /\ worklet.closureWrapper.snapshot = arg.closureLegacy
     /\ (~Present(arg.closure) /\ ~Present(arg.closureLegacy))
        => /\ worklet.closureWrapper = NullPtr
           /\ \A i \in 1..Len(stack) :
                stack[i].unwrappedClosure = Undefined
           /\ \A id \in DOMAIN heap : heap[id] = EmptyProps

\* A worklet without a closure runs with a receiver of the caller.
C17_Witness ==
  /\ phase = "alive" /\ worklet.isWorklet
  /\ arg.closure = Null /\ arg.closureLegacy = Undefined
  /\ worklet.closureWrapper = NullPtr
  /\ stack # <<>>
  /\ Top.handle.kind = "real"
  /\ Top.receiver = CallerThis
  /\ Top.unwrappedClosure = Undefined
  /\ PropsOf(CallerThis) = EmptyProps

(***************************************************************************)
(* Properties of the destructor (checked under SpecDispose).               *)
(***************************************************************************)
\* C14: the destructor is fire-and-forget.  Its step only appends the
\* disposal task behind whatever the owning thread still has pending: no
\* task is run and nothing is released within the step.
C14_DestructorOnlyEnqueues ==
  [][(phase = "alive" /\ phase' = "destroyed")
     => /\ released' = released
        /\ \A ctx \in Runtimes :
             \/ queue'[ctx] = queue[ctx]
             \/ /\ workletFunction # NullPtr
                /\ queue'[ctx]
                     = Append(queue[ctx],
                              [tmp |-> workletFunction,
                               from |-> queue'[ctx][Len(queue'[ctx])].from])
        /\ workletFunction # NullPtr
           => \E ctx \in Runtimes : queue'[ctx] # queue[ctx]]_vars

\* The destructor is done while the owning thread still has an earlier
\* task pending in front of the disposal task.
C14_Witness ==
  /\ phase = "destroyed"
  /\ released = {}
  /\ \E ctx \in Runtimes :
       /\ Len(queue[ctx]) >= 2
       /\ queue[ctx][1] = OtherTask
       /\ queue[ctx][Len(queue[ctx])].tmp # NullPtr

\* The disposal tasks still queued, by place.
PendingDisposals ==
  {<<ctx, i>> \in Runtimes \X (1..(MaxPending + 1)) :
     i <= Len(queue[ctx]) /\ queue[ctx][i].tmp # NullPtr}

\* C25: once an invoker that holds a handle is destroyed, and the threads
\* keep taking their queued tasks, the handle is eventually released; and
\* it is released once: there is never more than one disposal queued or
\* done, and a handle released is no longer queued.
C25_EventuallyReleasedOnce ==
  /\ [](Cardinality(PendingDisposals) + Cardinality(released) <= 1)
  /\ (phase = "destroyed" /\ callLog # <<>>)
       ~> (/\ PendingDisposals = {}
           /\ \E r \in released : r.handle = callLog[1].handle)

\* The handle of a destroyed invoker was released behind another task.
C25_Witness ==
  /\ phase = "destroyed" /\ callLog # <<>>
  /\ PendingDisposals = {}
  /\ \E r \in released :
       r.handle = callLog[1].handle /\ r.handle.kind = "real"
  /\ \E ctx \in Runtimes : queue[ctx] # <<>>
====
